---- MODULE Spec2Model ----
(***************************************************************************)
(* Model of fastapi-backend/app/main.py: the FastAPI proxy that forwards a *)
(* product search to the Shopify Storefront GraphQL API and reshapes the   *)
(* reply.                                                                  *)
(*                                                                         *)
(* Python str values whose characters matter (domains, tokens, price       *)
(* amounts) are sequences of one-character strings.  Python dicts (JSON    *)
(* objects) are functions whose DOMAIN is the set of keys present; JSON    *)
(* arrays are sequences.                                                   *)
(***************************************************************************)
EXTENDS Integers, Sequences, FiniteSets, TLC

VARIABLES
    settings,   \* the Settings object (main.py:26)
    pc,         \* position of the request being served: idle / awaiting / done
    req,        \* the inbound request: path and query parameters
    posts,      \* number of client.post calls made for the current request
    outbound,   \* the outbound POST of the current request, if any
    upstream,   \* the upstream outcome delivered to the awaiting handler
    response,   \* the HTTP response sent to the caller
    cfg,        \* what ensure_config_ok did in the current request
    nd_in, nd_out, nd_pc,       \* normalize_domain applied to one input
    edge_in, edge_out, edge_pc  \* the loop body of lines 160-186 applied to one edge

vars == <<settings, pc, req, posts, outbound, upstream, response, cfg,
          nd_in, nd_out, nd_pc, edge_in, edge_out, edge_pc>>

mainVars == <<settings, pc, req, posts, outbound, upstream, response, cfg>>
ndVars   == <<nd_in, nd_out, nd_pc>>
edgeVars == <<edge_in, edge_out, edge_pc>>

(***************************************************************************)
(* Bounds of the model.                                                    *)
(***************************************************************************)
MaxPieces == 4      \* a domain input is at most this many pieces long
MaxEdges == 2       \* an upstream reply carries at most this many edges

(***************************************************************************)
(* Python values.                                                          *)
(***************************************************************************)
None == << "<None>" >>              \* Optional[str] None; no str is equal to it
EmptyDict == [k \in {} |-> TRUE]    \* {}
Null == [null |-> TRUE]             \* JSON null / Python None where a dict may stand

Whitespace == {" ", "\t"}

Min(S) == CHOOSE x \in S : \A y \in S : x <= y
Max(S) == CHOOSE x \in S : \A y \in S : x >= y

\* str.strip(chars): drop the leading and trailing characters that are in cs
StripChars(s, cs) ==
    LET keep == {i \in 1..Len(s) : s[i] \notin cs}
    IN  IF keep = {} THEN <<>> ELSE SubSeq(s, Min(keep), Max(keep))

\* str.strip()
Strip(s) == StripChars(s, Whitespace)

\* str.startswith(p)
StartsWith(s, p) == Len(s) >= Len(p) /\ SubSeq(s, 1, Len(p)) = p

\* s[len(p):]
DropPrefix(s, p) == SubSeq(s, Len(p) + 1, Len(s))

HttpPrefix == <<"h", "t", "t", "p", ":", "/", "/">>
HttpsPrefix == <<"h", "t", "t", "p", "s", ":", "/", "/">>

\* dict.get(k, default)
Get(d, k, default) == IF k \in DOMAIN d THEN d[k] ELSE default

\* dict.get(k)
GetOrNone(d, k) == Get(d, k, Null)

\* truth value of a dict-or-None
Truthy(v) == v # Null /\ v # EmptyDict

\* a or b
Or(a, b) == IF Truthy(a) THEN a ELSE b

(***************************************************************************)
(* normalize_domain (main.py:28-35).                                       *)
(***************************************************************************)
normalize_domain(domain) ==
    LET d0 == Strip(IF domain = None THEN <<>> ELSE domain)
        d1 == IF StartsWith(d0, HttpPrefix) THEN DropPrefix(d0, HttpPrefix) ELSE d0
        d2 == IF StartsWith(d1, HttpsPrefix) THEN DropPrefix(d1, HttpsPrefix) ELSE d1
    IN  StripChars(Strip(d2), {"/"})

(***************************************************************************)
(* float(str), for unsigned decimal literals.  The value is kept in        *)
(* thousandths, so "10.5" and "10.50" both convert to 10500.               *)
(***************************************************************************)
Digits == {"0", "1", "2", "3", "4", "5", "6", "7", "8", "9"}

DigitVal(c) == CHOOSE n \in 0..9 : <<"0", "1", "2", "3", "4", "5", "6", "7", "8", "9">>[n + 1] = c

RECURSIVE IntVal(_)
IntVal(ds) == IF ds = <<>> THEN 0
              ELSE 10 * IntVal(SubSeq(ds, 1, Len(ds) - 1)) + DigitVal(ds[Len(ds)])

\* whether float(s) returns; otherwise it raises ValueError
IsNumeric(s) ==
    /\ \A i \in 1..Len(s) : s[i] \in Digits \cup {"."}
    /\ Cardinality({i \in 1..Len(s) : s[i] = "."}) <= 1
    /\ \E i \in 1..Len(s) : s[i] \in Digits

\* float(s), in thousandths
Float(s) ==
    LET dots == {i \in 1..Len(s) : s[i] = "."}
        dot  == IF dots = {} THEN Len(s) + 1 ELSE Min(dots)
        int  == SubSeq(s, 1, dot - 1)
        frac == SubSeq(s, dot + 1, Len(s))
        pad  == [i \in 1..3 |-> IF i <= Len(frac) THEN frac[i] ELSE "0"]
    IN  1000 * IntVal(int) + IntVal(pad)

(***************************************************************************)
(* The body of the loop over edges (main.py:160-186).                      *)
(***************************************************************************)
\* line 161
edge_node(edge) == Get(edge, "node", EmptyDict)

\* line 164
variant_edges(node) == Get(Get(node, "variants", EmptyDict), "edges", <<>>)

\* lines 165-168, with v.get("priceV2") tried first
price_node_v2_first(node) ==
    IF Len(variant_edges(node)) > 0
    THEN LET v == Get(variant_edges(node)[1], "node", EmptyDict)
         IN  Or(GetOrNone(v, "priceV2"), GetOrNone(v, "price"))
    ELSE Null

\* lines 165-168
price_node(node) ==
    IF Len(variant_edges(node)) > 0
    THEN LET v == Get(variant_edges(node)[1], "node", EmptyDict)
         IN  Or(GetOrNone(v, "price"), GetOrNone(v, "priceV2"))
    ELSE Null

\* line 171
featured(node) == Or(GetOrNone(node, "featuredImage"), EmptyDict)

\* line 172
img_edges(node) == Get(Get(node, "images", EmptyDict), "edges", <<>>)

\* line 173: img_edges[0]["node"] raises KeyError when the first gallery edge has
\* no "node" key; the subscription is evaluated only when featured is falsy
img_node_raises(node) ==
    /\ ~Truthy(featured(node))
    /\ Len(img_edges(node)) > 0
    /\ "node" \notin DOMAIN img_edges(node)[1]

\* line 173, with the gallery image tried first
img_node_gallery_first(node) ==
    IF Len(img_edges(node)) > 0 /\ "node" \in DOMAIN img_edges(node)[1]
        /\ Truthy(img_edges(node)[1]["node"])
    THEN img_edges(node)[1]["node"]
    ELSE featured(node)

\* line 173, when it does not raise
img_node(node) ==
    IF Truthy(featured(node)) THEN featured(node)
    ELSE IF Len(img_edges(node)) > 0 THEN img_edges(node)[1]["node"]
    ELSE EmptyDict

\* lines 180-183: float(price_node["amount"]) raises ValueError on a non-numeric amount
money_raises(node) == Truthy(price_node(node)) /\ ~IsNumeric(price_node(node)["amount"])

\* lines 180-183
Money(pn) == [amount |-> Float(pn["amount"]), currencyCode |-> pn["currencyCode"]]

\* lines 175-186: the ProductResult; an Optional field left at None is a key not present
ProductResult(node) ==
    LET img  == img_node(node)
        keys == {"id", "title", "handle"}
                \cup (IF "onlineStoreUrl" \in DOMAIN node THEN {"url"} ELSE {})
                \cup (IF Truthy(price_node(node)) THEN {"price"} ELSE {})
                \cup (IF "url" \in DOMAIN img THEN {"image"} ELSE {})
                \cup (IF "altText" \in DOMAIN img THEN {"imageAlt"} ELSE {})
    IN  [k \in keys |->
            CASE k = "id"       -> Get(node, "id", "")
              [] k = "title"    -> Get(node, "title", "")
              [] k = "handle"   -> Get(node, "handle", "")
              [] k = "url"      -> node["onlineStoreUrl"]
              [] k = "price"    -> Money(price_node(node))
              [] k = "image"    -> img["url"]
              [] k = "imageAlt" -> img["altText"]]

\* lines 161-186 for one edge: the product appended, or the exception raised
BuildProduct(edge) ==
    LET node == edge_node(edge)
    IN  IF img_node_raises(node) THEN [ok |-> FALSE, error |-> "KeyError"]
        ELSE IF money_raises(node) THEN [ok |-> FALSE, error |-> "ValueError"]
        ELSE [ok |-> TRUE, product |-> ProductResult(node)]

(***************************************************************************)
(* Inputs of normalize_domain: concatenations of at most MaxPieces pieces. *)
(***************************************************************************)
Pieces == { <<" ">>, <<"/">>, HttpPrefix, HttpsPrefix,
            <<"H", "T", "T", "P", ":", "/", "/">>,
            <<"a", ".", "b">>, <<"a", "b">> }

RECURSIVE Concats(_)
Concats(n) == IF n = 0 THEN { <<>> }
              ELSE Concats(n - 1) \cup { s \o p : s \in Concats(n - 1), p \in Pieces }

DomainInputs == Concats(MaxPieces) \cup {None}

(***************************************************************************)
(* Upstream product edges, as the GraphQL query of lines 98-121 shapes     *)
(* them, with every key optional.                                          *)
(***************************************************************************)
ImgFeatured == [url |-> "featured.png", altText |-> "featured alt"]
ImgGallery  == [url |-> "gallery.png", altText |-> "gallery alt"]
ImgSecond   == [url |-> "second.png", altText |-> "second alt"]

PriceMoney(a) == [amount |-> a, currencyCode |-> "USD"]
PriceV2Money(a) == [amount |-> a, currencyCode |-> "CAD"]

PriceValues == { Null, PriceMoney(<<"1", "0", ".", "5">>), PriceMoney(<<"a", "b", "c">>) }
PriceV2Values == { Null, PriceV2Money(<<"7">>), PriceV2Money(<<"1", "0", ".", "5", "0">>) }

VariantNodes ==
    { p @@ q : p \in {EmptyDict} \cup { [price |-> m] : m \in PriceValues },
               q \in {EmptyDict} \cup { [priceV2 |-> m] : m \in PriceV2Values } }

VariantEdges == {EmptyDict} \cup { [node |-> v] : v \in VariantNodes }

VariantsParts ==
    {EmptyDict, [variants |-> EmptyDict], [variants |-> [edges |-> <<>>]]}
    \cup { [variants |-> [edges |-> <<e>>]] : e \in VariantEdges }
    \cup { [variants |-> [edges |-> <<e, [node |-> [price |-> PriceMoney(<<"9", "9">>)]]>>]] :
             e \in {EmptyDict, [node |-> EmptyDict], [node |-> [priceV2 |-> PriceV2Money(<<"7">>)]]} }

ImagesParts ==
    { EmptyDict, [images |-> EmptyDict], [images |-> [edges |-> <<>>]],
      [images |-> [edges |-> <<EmptyDict>>]],
      [images |-> [edges |-> <<[node |-> EmptyDict]>>]],
      [images |-> [edges |-> <<[node |-> [url |-> "gallery.png"]]>>]],
      [images |-> [edges |-> <<[node |-> ImgGallery]>>]],
      [images |-> [edges |-> <<[node |-> ImgGallery], [node |-> ImgSecond]>>]] }

FeaturedParts ==
    {EmptyDict} \cup { [featuredImage |-> f] :
                         f \in {Null, EmptyDict, ImgFeatured, [altText |-> "featured alt"]} }

ScalarValues == [id |-> "gid://shopify/Product/1", title |-> "Black Shoe",
                 handle |-> "black-shoe", onlineStoreUrl |-> "https://shop/black-shoe"]

ScalarParts == { [k \in S |-> ScalarValues[k]] : S \in SUBSET DOMAIN ScalarValues }

Nodes == { s @@ f @@ i @@ v : s \in ScalarParts, f \in FeaturedParts,
                              i \in ImagesParts, v \in VariantsParts }

Edges == {EmptyDict} \cup { [node |-> n] : n \in Nodes }

(***************************************************************************)
(* normalize_domain applied to one input.                                  *)
(***************************************************************************)
MainIdle ==
    /\ settings = [shopify_store_domain |-> <<>>, shopify_storefront_token |-> <<>>]
    /\ pc = "idle"
    /\ req = [path |-> "none"]
    /\ posts = 0
    /\ outbound = [sent |-> FALSE]
    /\ upstream = [kind |-> "none"]
    /\ response = [kind |-> "none"]
    /\ cfg = [called |-> FALSE]

NdIdle == nd_in = None /\ nd_out = <<>> /\ nd_pc = "off"

EdgeIdle == edge_in = EmptyDict /\ edge_out = [ok |-> FALSE, error |-> "none"] /\ edge_pc = "off"

InitNorm ==
    /\ MainIdle /\ EdgeIdle
    /\ nd_in \in DomainInputs
    /\ nd_out = <<>>
    /\ nd_pc = "in"

ApplyNormalize ==
    /\ nd_pc = "in"
    /\ nd_out' = normalize_domain(nd_in)
    /\ nd_pc' = "out"
    /\ UNCHANGED <<nd_in, mainVars, edgeVars>>

NextNorm == ApplyNormalize

SpecNorm == InitNorm /\ [][NextNorm]_vars

(***************************************************************************)
(* The loop body applied to one edge.                                      *)
(***************************************************************************)
InitEdge ==
    /\ MainIdle /\ NdIdle
    /\ edge_in \in Edges
    /\ edge_out = [ok |-> FALSE, error |-> "none"]
    /\ edge_pc = "in"

ApplyBuildProduct ==
    /\ edge_pc = "in"
    /\ edge_out' = BuildProduct(edge_in)
    /\ edge_pc' = "out"
    /\ UNCHANGED <<edge_in, mainVars, ndVars>>

NextEdge == ApplyBuildProduct

SpecEdge == InitEdge /\ [][NextEdge]_vars

(***************************************************************************)
(* The HTTP service: settings, inbound requests, upstream outcomes.        *)
(***************************************************************************)
SettingsDomains == { <<>>, <<"/">>, <<"a", "b">>, HttpsPrefix \o <<"a", ".", "b", "/">> }
SettingsTokens == { <<>>, <<" ">>, <<"t", "k">> }

\* class Settings (lines 12-26); the API version and the timeout keep their defaults
Settings == [shopify_store_domain : SettingsDomains, shopify_storefront_token : SettingsTokens]

\* the query strings of GET /search: each of q, limit, store given or not
QValues == {"", "shoes"}
LimitValues == {0, 1, 50, 51}
StoreValues == { <<>>, <<"/">>, HttpPrefix \o <<"c", ".", "d">> }

SearchParams ==
    { q @@ l @@ st : q \in {EmptyDict} \cup { [q |-> v] : v \in QValues },
                     l \in {EmptyDict} \cup { [limit |-> v] : v \in LimitValues },
                     st \in {EmptyDict} \cup { [store |-> v] : v \in StoreValues } }

\* the product edges of the service runs: a full product, an edge without node, a
\* legacy-price product, a bare product, a gallery edge without node, a bad amount
ReplyEdges ==
    { [node |-> ScalarValues @@ [featuredImage |-> ImgFeatured]
                 @@ [images |-> [edges |-> <<[node |-> ImgGallery]>>]]
                 @@ [variants |-> [edges |-> <<[node |-> [price |-> PriceMoney(<<"1", "0", ".", "5">>),
                                                          priceV2 |-> PriceV2Money(<<"7">>)]]>>]]],
      EmptyDict,
      [node |-> [id |-> "gid://shopify/Product/2", title |-> "Old Shoe",
                 images |-> [edges |-> <<[node |-> ImgGallery]>>],
                 variants |-> [edges |-> <<[node |-> [priceV2 |-> PriceV2Money(<<"7">>)]]>>]]],
      [node |-> [id |-> "gid://shopify/Product/3", variants |-> [edges |-> <<>>]]],
      [node |-> [id |-> "gid://shopify/Product/4", images |-> [edges |-> <<EmptyDict>>]]],
      [node |-> [id |-> "gid://shopify/Product/5",
                 variants |-> [edges |-> <<[node |-> [price |-> PriceMoney(<<"a", "b", "c">>)]]>>]]] }

RECURSIVE EdgeLists(_)
EdgeLists(n) == IF n = 0 THEN { <<>> }
                ELSE EdgeLists(n - 1) \cup { Append(l, e) : l \in EdgeLists(n - 1), e \in ReplyEdges }

ErrorsParts == { EmptyDict, [errors |-> <<>>], [errors |-> <<[message |-> "Throttled"]>>] }

DataParts ==
    { EmptyDict, [data |-> EmptyDict], [data |-> [products |-> EmptyDict]] }
    \cup { [data |-> [products |-> [edges |-> l]]] : l \in EdgeLists(MaxEdges) }

\* what the awaited client.post of line 145 can produce
UpstreamOutcomes ==
    { [kind |-> "timeout"], [kind |-> "transport_error"] }
    \cup { [kind |-> "http", status |-> st, is_json |-> TRUE, body |-> [error |-> "upstream"]] :
             st \in {201, 404, 500} }
    \cup { [kind |-> "http", status |-> st, is_json |-> FALSE, body |-> [text |-> "<html>"]] :
             st \in {200, 500} }
    \cup { [kind |-> "http", status |-> 200, is_json |-> TRUE, body |-> e @@ d] :
             e \in ErrorsParts, d \in DataParts }

(***************************************************************************)
(* ensure_config_ok (lines 37-46): the domain returned, or the RuntimeError.*)
(***************************************************************************)
HasDot(d) == \E i \in 1..Len(d) : d[i] = "."

ensure_config_ok_no_dot_check(s) ==
    LET d == normalize_domain(s.shopify_store_domain)
    IN  IF d = <<>>
        THEN [ok |-> FALSE, error |-> "Invalid SHOPIFY_STORE_DOMAIN"]
        ELSE IF s.shopify_storefront_token = <<>>
        THEN [ok |-> FALSE, error |-> "Missing SHOPIFY_STOREFRONT_TOKEN"]
        ELSE [ok |-> TRUE, d |-> d]

ensure_config_ok(s) ==
    LET d == normalize_domain(s.shopify_store_domain)
    IN  IF d = <<>> \/ ~HasDot(d)
        THEN [ok |-> FALSE, error |-> "Invalid SHOPIFY_STORE_DOMAIN"]
        ELSE IF s.shopify_storefront_token = <<>>
        THEN [ok |-> FALSE, error |-> "Missing SHOPIFY_STOREFRONT_TOKEN"]
        ELSE [ok |-> TRUE, d |-> d]

(***************************************************************************)
(* Responses.                                                              *)
(***************************************************************************)
\* FastAPI's answer to a query string that fails the declarations of lines 212-214
ValidationError == [kind |-> "RequestValidationError", status |-> 422]

\* an exception that is no HTTPException leaves the handler: the framework answers 500
InternalServerError(exc) == [kind |-> "InternalServerError", status |-> 500, error |-> exc]

\* raise HTTPException(status_code, detail)
HTTPException(status_code, detail) ==
    [kind |-> "HTTPException", status |-> status_code, detail |-> detail]

\* lines 131-135
MissingToken == HTTPException(500, [message |-> "Missing SHOPIFY_STOREFRONT_TOKEN. Set it in your .env."])

\* line 152
RequestFailed(err) == HTTPException(502, [message |-> "Shopify request failed", error |-> err])

\* line 156, answering with a client-error status
GraphQLError_400(errors) == HTTPException(400, [message |-> "Shopify GraphQL error", error |-> errors])

\* line 156
GraphQLError(errors) == HTTPException(502, [message |-> "Shopify GraphQL error", error |-> errors])

(***************************************************************************)
(* search_shopify_products (lines 123-188) and the /search route.          *)
(***************************************************************************)
\* truth value of an Optional[str]
StrTruthy(s) == s # None /\ s # <<>>

\* lines 212-213: q is required; limit, when given, satisfies ge=1 and le=50
params_valid(params) ==
    /\ "q" \in DOMAIN params
    /\ "limit" \in DOMAIN params => (params["limit"] >= 1 /\ params["limit"] <= 50)

\* line 213: limit defaults to 5
limit_of(params) == Get(params, "limit", 5)

\* line 214: store defaults to None
store_of(params) == Get(params, "store", None)

\* line 142: max(1, min(limit, 50))
num(limit) == Max({1, Min({limit, 50})})

\* line 155 as `if data.get("errors")`
has_errors_truthy(data) == "errors" \in DOMAIN data /\ data["errors"] # <<>>

\* line 155: "errors" in data
has_errors(data) == "errors" \in DOMAIN data

\* line 158
reply_edges(data) ==
    Get(Get(Get(data, "data", EmptyDict), "products", EmptyDict), "edges", <<>>)

\* line 175 as results.insert(0, ...)
append_front(results, product) == <<product>> \o results

\* line 175: results.append(...)
append(results, product) == Append(results, product)

\* lines 159-188: the loop; it ends at the first edge whose body raises
RECURSIVE normalize_edges(_, _)
normalize_edges(edges, results) ==
    IF edges = <<>> THEN [ok |-> TRUE, results |-> results]
    ELSE LET b == BuildProduct(Head(edges))
         IN  IF b.ok THEN normalize_edges(Tail(edges), append(results, b.product))
             ELSE [ok |-> FALSE, error |-> b.error]

\* lines 221-226
SearchResponse(params, s, results) ==
    [kind |-> "SearchResponse", status |-> 200,
     store |-> IF StrTruthy(store_of(params)) THEN normalize_domain(store_of(params))
               ELSE normalize_domain(s.shopify_store_domain),
     query |-> params["q"],
     count |-> Len(results),
     results |-> results]

\* lines 145-188 and 221-226: what the handler answers once client.post has returned
\* or raised
reply_response(params, s, r) ==
    IF r.kind # "http" THEN InternalServerError(r.kind)
    ELSE IF r.status # 200 THEN RequestFailed(r.body)
    ELSE IF ~r.is_json THEN InternalServerError("JSONDecodeError")
    ELSE IF has_errors(r.body) THEN GraphQLError(r.body["errors"])
    ELSE LET n == normalize_edges(reply_edges(r.body), <<>>)
         IN  IF n.ok THEN SearchResponse(params, s, n.results)
             ELSE InternalServerError(n.error)

NewRequest(path, params) ==
    /\ pc = "idle"
    /\ req' = [path |-> path, params |-> params]
    /\ UNCHANGED <<settings, upstream, ndVars, edgeVars>>

NoUpstreamCall ==
    /\ posts' = 0
    /\ outbound' = [sent |-> FALSE]
    /\ pc' = "done"

\* lines 193-195
health ==
    /\ NewRequest("/health", EmptyDict)
    /\ NoUpstreamCall
    /\ cfg' = [called |-> FALSE]
    /\ response' = [kind |-> "json", status |-> 200, body |-> [status |-> "ok"]]

\* lines 197-199
root ==
    /\ NewRequest("/", EmptyDict)
    /\ NoUpstreamCall
    /\ cfg' = [called |-> FALSE]
    /\ response' = [kind |-> "json", status |-> 200, body |-> [message |-> "Hello from FastAPI!"]]

\* lines 201-208
config ==
    /\ NewRequest("/_config", EmptyDict)
    /\ NoUpstreamCall
    /\ cfg' = [called |-> FALSE]
    /\ response' = [kind |-> "json", status |-> 200,
                    body |-> [shopify_store_domain |-> normalize_domain(settings.shopify_store_domain),
                              shopify_api_version |-> "2024-07",
                              token_present |-> settings.shopify_storefront_token # <<>>]]

\* lines 210-220 with 123-145: the /search handler up to the awaited client.post
search(params) ==
    /\ NewRequest("/search", params)
    /\ IF ~params_valid(params)
       THEN /\ NoUpstreamCall
            /\ cfg' = [called |-> FALSE]
            /\ response' = ValidationError
       ELSE LET override == StrTruthy(store_of(params))
                checked  == ensure_config_ok(settings)
                domain   == IF override THEN normalize_domain(store_of(params)) ELSE checked.d
                token    == Strip(settings.shopify_storefront_token)
            IN  /\ cfg' = IF override THEN [called |-> FALSE]
                          ELSE [called |-> TRUE, result |-> checked]
                /\ IF ~override /\ ~checked.ok
                   THEN /\ NoUpstreamCall
                        /\ response' = InternalServerError("RuntimeError")
                   ELSE IF token = <<>>
                   THEN /\ NoUpstreamCall
                        /\ response' = MissingToken
                   ELSE /\ posts' = 1
                        /\ outbound' = [sent |-> TRUE, domain |-> domain, token |-> token,
                                        q |-> params["q"], num |-> num(limit_of(params))]
                        /\ pc' = "awaiting"
                        /\ response' = [kind |-> "none"]

\* line 137: with an empty domain the URL is https:///api/..., which names no
\* host: client.post can only raise
can_produce(r) == outbound.domain = <<>> => r.kind = "transport_error"

\* the handler after the await, retrying once when the POST timed out
upstream_reply_retry(r) ==
    /\ pc = "awaiting"
    /\ can_produce(r)
    /\ upstream' = r
    /\ IF r.kind = "timeout" /\ posts < 2
       THEN /\ posts' = posts + 1
            /\ UNCHANGED <<pc, response>>
       ELSE /\ pc' = "done"
            /\ response' = reply_response(req.params, settings, r)
            /\ UNCHANGED posts
    /\ UNCHANGED <<settings, req, outbound, cfg, ndVars, edgeVars>>

\* lines 145-188 and 221-226: client.post returns or raises and the handler answers
upstream_reply(r) ==
    /\ pc = "awaiting"
    /\ can_produce(r)
    /\ upstream' = r
    /\ pc' = "done"
    /\ response' = reply_response(req.params, settings, r)
    /\ UNCHANGED <<settings, req, posts, outbound, cfg, ndVars, edgeVars>>

\* the response is sent; the request-scoped values are dropped and the process,
\* with its settings, serves the next request
request_done ==
    /\ pc = "done"
    /\ pc' = "idle"
    /\ req' = [path |-> "none"]
    /\ posts' = 0
    /\ outbound' = [sent |-> FALSE]
    /\ upstream' = [kind |-> "none"]
    /\ response' = [kind |-> "none"]
    /\ cfg' = [called |-> FALSE]
    /\ UNCHANGED <<settings, ndVars, edgeVars>>

Init ==
    /\ settings \in Settings
    /\ pc = "idle"
    /\ req = [path |-> "none"]
    /\ posts = 0
    /\ outbound = [sent |-> FALSE]
    /\ upstream = [kind |-> "none"]
    /\ response = [kind |-> "none"]
    /\ cfg = [called |-> FALSE]
    /\ NdIdle /\ EdgeIdle

Next ==
    \/ health
    \/ root
    \/ config
    \/ \E params \in SearchParams : search(params)
    \/ \E r \in UpstreamOutcomes : upstream_reply(r)
    \/ request_done

Spec == Init /\ [][Next]_vars

(***************************************************************************)
(* Properties.                                                             *)
(***************************************************************************)
IsSearch == pc # "idle" /\ req.path = "/search"

Answered == pc = "done" /\ req.path = "/search"

\* the class of an HTTP status: 2 for 2xx, 4 for 4xx, 5 for 5xx
StatusClass(status) == status \div 100

\* the query parameters are well-formed: q given, limit absent or within [1,50]
ParamsWellFormed(params) ==
    /\ "q" \in DOMAIN params
    /\ "limit" \notin DOMAIN params \/ params["limit"] \in 1..50

\* a store override is in effect
HasOverride(params) == "store" \in DOMAIN params /\ params["store"] # <<>>

\* the reply is HTTP 200 with a JSON object as body
Is200Json == upstream.kind = "http" /\ upstream.status = 200 /\ upstream.is_json

\* the edges the reply carries at data.products.edges, or none
CarriedEdges ==
    LET b == upstream.body
    IN  IF "data" \in DOMAIN b /\ "products" \in DOMAIN b["data"]
           /\ "edges" \in DOMAIN b["data"]["products"]
        THEN b["data"]["products"]["edges"]
        ELSE <<>>

\* the node of an edge, or the empty object
NodeOf(edge) == IF "node" \in DOMAIN edge THEN edge["node"] ELSE EmptyDict

\* the first variant's node: none when there is no first variant edge
FirstVariant(node) ==
    IF "variants" \in DOMAIN node /\ "edges" \in DOMAIN node["variants"]
       /\ Len(node["variants"]["edges"]) > 0
    THEN [exists |-> TRUE, v |-> NodeOf(node["variants"]["edges"][1])]
    ELSE [exists |-> FALSE]

Present(d, k) == k \in DOMAIN d /\ d[k] # Null

\* the reference price resolution: which field the price is built from
ChosenPrice(node) ==
    LET fv == FirstVariant(node)
    IN  IF ~fv.exists THEN "none"
        ELSE IF Present(fv.v, "price") THEN "price"
        ELSE IF Present(fv.v, "priceV2") THEN "priceV2"
        ELSE "none"

\* the gallery edges of a node, or none
Gallery(node) ==
    IF "images" \in DOMAIN node /\ "edges" \in DOMAIN node["images"]
    THEN node["images"]["edges"] ELSE <<>>

HasFeatured(node) ==
    "featuredImage" \in DOMAIN node /\ node["featuredImage"] \notin {Null, EmptyDict}

\* the reference image resolution: the object both image fields are read from
ImageSource(node) ==
    IF HasFeatured(node) THEN node["featuredImage"]
    ELSE IF Len(Gallery(node)) > 0 THEN NodeOf(Gallery(node)[1])
    ELSE EmptyDict

----------------------------------------------------------------------------
\* C1: a request makes at most one outbound POST and never a second one, whatever
\* the upstream outcome; /search makes exactly one when the query parameters are
\* valid and the configuration and token checks pass, none otherwise; /health, /
\* and /_config make none.
C1_ChecksPass ==
    /\ ParamsWellFormed(req.params)
    /\ \/ HasOverride(req.params)
       \/ LET d == normalize_domain(settings.shopify_store_domain)
          IN  d # <<>> /\ HasDot(d) /\ settings.shopify_storefront_token # <<>>
    /\ Strip(settings.shopify_storefront_token) # <<>>

C1_AtMostOnePost ==
    /\ posts <= 1
    /\ (outbound.sent <=> posts = 1)
    /\ (pc # "idle" /\ req.path # "/search") => posts = 0
    /\ IsSearch => posts = (IF C1_ChecksPass THEN 1 ELSE 0)
    /\ (pc = "done" /\ posts = 1) => upstream.kind # "none"

C1_Witness ==
    /\ Answered /\ posts = 1 /\ upstream.kind = "timeout"
    /\ response.status = 500

\* C2: a 200 reply whose body has an `errors` entry ends in an error response that
\* carries the errors array, never in a SearchResponse, whatever `data` it holds.
C2_GraphQLErrorsAreErrors ==
    (Answered /\ Is200Json /\ "errors" \in DOMAIN upstream.body) =>
        /\ response.kind = "HTTPException"
        /\ response.status >= 400
        /\ response.detail.error = upstream.body["errors"]

C2_Witness ==
    /\ Answered /\ Is200Json /\ "errors" \in DOMAIN upstream.body
    /\ upstream.body["errors"] = <<>>
    /\ Len(CarriedEdges) > 0
    /\ response.status = 502

\* C3: timeout or transport failure, a non-2xx upstream status and GraphQL errors in
\* a 200 reply are all answered in one status class (5xx), and malformed query
\* parameters (q missing, limit outside [1,50]) in another (4xx).
C3_UpstreamFailure ==
    \/ upstream.kind \in {"timeout", "transport_error"}
    \/ upstream.kind = "http" /\ StatusClass(upstream.status) # 2
    \/ Is200Json /\ "errors" \in DOMAIN upstream.body

C3_ErrorClasses ==
    /\ (Answered /\ C3_UpstreamFailure) => StatusClass(response.status) = 5
    /\ (Answered /\ ~ParamsWellFormed(req.params)) => StatusClass(response.status) = 4

C3_Witness ==
    /\ Answered /\ Is200Json /\ "errors" \in DOMAIN upstream.body
    /\ response.status = 502

\* C4: without a store override, /search ends in a server error with no outbound
\* POST when the configured domain normalizes to the empty string or to a string
\* without '.', or when the configured token is empty; otherwise the configuration
\* check passes and returns the normalized configured domain.  The settings never
\* change.
C4_State ==
    (IsSearch /\ ParamsWellFormed(req.params) /\ ~HasOverride(req.params)) =>
        LET d == normalize_domain(settings.shopify_store_domain)
        IN  IF d = <<>> \/ ~HasDot(d) \/ settings.shopify_storefront_token = <<>>
            THEN /\ pc = "done"
                 /\ StatusClass(response.status) = 5
                 /\ posts = 0 /\ ~outbound.sent
                 /\ cfg.called /\ ~cfg.result.ok
            ELSE /\ cfg.called /\ cfg.result.ok
                 /\ cfg.result.d = d

C4_ConfigCheck == []C4_State /\ [][settings' = settings]_vars

C4_Witness ==
    /\ Answered /\ ~HasOverride(req.params)
    /\ normalize_domain(settings.shopify_store_domain) = <<"a", "b">>
    /\ settings.shopify_storefront_token # <<>>
    /\ cfg.called /\ ~cfg.result.ok
    /\ response.status = 500 /\ posts = 0

\* C5: for a 200 reply without errors, normalization does not fail when optional
\* nesting levels are absent: every edge yields one ProductResult with id, title
\* and handle populated (empty string when absent).  (A non-numeric amount of the
\* chosen price is the one failure the design asks for.)
C5_NoBadAmount ==
    \A i \in 1..Len(CarriedEdges) :
        LET node == NodeOf(CarriedEdges[i])
            ch   == ChosenPrice(node)
        IN  ch # "none" => IsNumeric(FirstVariant(node).v[ch]["amount"])

C5_AbsenceTolerated ==
    (Answered /\ Is200Json /\ "errors" \notin DOMAIN upstream.body /\ C5_NoBadAmount) =>
        /\ response.kind = "SearchResponse"
        /\ Len(response.results) = Len(CarriedEdges)
        /\ \A i \in 1..Len(CarriedEdges) :
             \A k \in {"id", "title", "handle"} :
                /\ k \in DOMAIN response.results[i]
                /\ response.results[i][k] =
                      (IF k \in DOMAIN NodeOf(CarriedEdges[i])
                       THEN NodeOf(CarriedEdges[i])[k] ELSE "")

\* C6: the price of a product is unset when there is no first variant edge;
\* otherwise it is the Money of the first variant node's `price` when present, else
\* of its `priceV2` when present, else unset; amount and currencyCode are those of
\* the chosen field.
C6_PriceResolution ==
    (edge_pc = "out" /\ edge_out.ok) =>
        LET node == NodeOf(edge_in)
            ch   == ChosenPrice(node)
            p    == edge_out.product
        IN  IF ch = "none" THEN "price" \notin DOMAIN p
            ELSE /\ "price" \in DOMAIN p
                 /\ p["price"].currencyCode = FirstVariant(node).v[ch]["currencyCode"]
                 /\ p["price"].amount = Float(FirstVariant(node).v[ch]["amount"])

C6_Witness ==
    /\ edge_pc = "out" /\ edge_out.ok
    /\ FirstVariant(NodeOf(edge_in)).exists
    /\ Present(FirstVariant(NodeOf(edge_in)).v, "price")
    /\ Present(FirstVariant(NodeOf(edge_in)).v, "priceV2")
    /\ edge_out.product["price"] = [amount |-> 10500, currencyCode |-> "USD"]

\* C7: image and imageAlt are the url and altText of `featuredImage` whenever that
\* is a non-empty object, even if a gallery image exists; otherwise of the node of
\* the first entry of images.edges when that list is non-empty; otherwise both are
\* unset.  Both fields come from the same object.
C7_ImageResolution ==
    (edge_pc = "out" /\ edge_out.ok) =>
        LET src == ImageSource(NodeOf(edge_in))
            p   == edge_out.product
        IN  /\ ("image" \in DOMAIN p) <=> ("url" \in DOMAIN src)
            /\ ("imageAlt" \in DOMAIN p) <=> ("altText" \in DOMAIN src)
            /\ "url" \in DOMAIN src => p["image"] = src["url"]
            /\ "altText" \in DOMAIN src => p["imageAlt"] = src["altText"]

C7_Witness ==
    /\ edge_pc = "out" /\ edge_out.ok
    /\ HasFeatured(NodeOf(edge_in))
    /\ Len(Gallery(NodeOf(edge_in))) > 0
    /\ "url" \in DOMAIN NodeOf(Gallery(NodeOf(edge_in))[1])
    /\ "image" \in DOMAIN edge_out.product
    /\ edge_out.product["image"] = "featured.png"
    /\ edge_out.product["imageAlt"] = "featured alt"

\* C8: a successful /search response has count = length of results, and results
\* holds one ProductResult per upstream edge in upstream order: the i-th result is
\* built from the i-th edge.
C8_CountAndOrder ==
    (Answered /\ response.kind = "SearchResponse") =>
        /\ response.count = Len(response.results)
        /\ Len(response.results) = Len(CarriedEdges)
        /\ \A i \in 1..Len(CarriedEdges) :
             /\ response.results[i].id =
                   (IF "id" \in DOMAIN NodeOf(CarriedEdges[i])
                    THEN NodeOf(CarriedEdges[i])["id"] ELSE "")
             /\ BuildProduct(CarriedEdges[i]).ok
             /\ response.results[i] = BuildProduct(CarriedEdges[i]).product

C8_Witness ==
    /\ Answered /\ response.kind = "SearchResponse"
    /\ response.count = 2
    /\ response.results[1].id = "gid://shopify/Product/2"
    /\ response.results[2].id = "gid://shopify/Product/1"

\* C9: normalize_domain returns the input with surrounding whitespace trimmed, then
\* at most one leading `http://` or `https://` removed (first match wins, a second
\* prefix is kept), then leading and trailing `/` removed; absent or empty input
\* gives the empty string.  (Whitespace that the removed prefix leaves at the
\* front is trimmed too, as line 34 does, so that the prefix rule alone decides.)
C9_Reference(domain) ==
    LET d0 == Strip(IF domain = None THEN <<>> ELSE domain)
        d1 == IF StartsWith(d0, HttpPrefix) THEN DropPrefix(d0, HttpPrefix)
              ELSE IF StartsWith(d0, HttpsPrefix) THEN DropPrefix(d0, HttpsPrefix)
              ELSE d0
    IN  StripChars(Strip(d1), {"/"})

C9_OnePrefixStripped == nd_pc = "out" => nd_out = C9_Reference(nd_in)

\* C10: a /search request whose q is missing or empty is rejected with a client
\* error: it never reaches the configuration check, never causes an outbound POST
\* and never produces a SearchResponse.
C10_EmptyQueryRejected ==
    (IsSearch /\ ("q" \notin DOMAIN req.params \/ req.params["q"] = "")) =>
        /\ pc = "done"
        /\ StatusClass(response.status) = 4
        /\ ~cfg.called
        /\ posts = 0
        /\ response.kind # "SearchResponse"

====
